---- MODULE Spec2Model ----
(***************************************************************************)
(* Model of the ProjectObsidian registries: the block manager              *)
(* (obsidian/blocks.py), the two directional packet managers               *)
(* (obsidian/packet.py) and the module manager's initModules               *)
(* (obsidian/module.py).                                                   *)
(*                                                                         *)
(* A Python dict is modelled as a sequence of [k, v] pairs in insertion    *)
(* order (assigning to an existing key keeps its position), because the    *)
(* case-insensitive lookups and getPacketById scan the dict in that order. *)
(* A name is a sequence of one-character strings, so that str.lower() is   *)
(* computed and not assumed.                                               *)
(***************************************************************************)
EXTENDS Integers, Sequences, FiniteSets, TLC

VARIABLES
    blockDict,      \* _BlockManager._blockDict: name -> block
    blockIds,       \* _BlockManager._blockIds: id -> block
    requestDict,    \* RequestManager._packetDict: name -> packet
    loopPackets,    \* RequestManager.loopPackets: id -> packet
    responseDict,   \* ResponseManager._packetDict: name -> packet
    completed,      \* _ModuleManager._completed
    nCalls,         \* number of register calls made so far outside initModules
    last,           \* the last call: operation, argument and outcome
    pre,            \* the registries as they were when the last call started
    codecIn,        \* the arguments of the codec call under way: a string and a field width
    codecOut,       \* how far that call has got, and what packing and unpacking returned
    server,         \* the serving process: the extensions it advertises, whether it runs
    clickModule,    \* the ClickDistance module: "unloaded", "failed" or "loaded"
    world,          \* the world: whether it exists, its "clickDistance" metadata, its clickDistance attribute
    conns,          \* per connection: its state, its capability set, the packets sent to it
    errLog,         \* the number of errors the packets' onError has logged
    srvLast,        \* the last server operation: argument, outcome, and the state before it
    bindings,       \* the hook bindings, in registration order
    hookLast,       \* the last hook operation: registration outcome or invocation trace
    hotkeys,        \* the TextHotKey configuration: label to data, in insertion order
    hkModule,       \* the TextHotKey module: "unloaded", "failed" or "loaded"
    net,            \* a network handler: its player's capabilities, the packets sent
    pktLast         \* the last packet operation: serialize's outcome and bytes

registryVars == <<blockDict, blockIds, requestDict, loopPackets, responseDict,
                  completed, nCalls, last, pre>>

codecVars == <<codecIn, codecOut>>

serverVars == <<server, clickModule, world, conns, errLog, srvLast>>

hookVars == <<bindings, hookLast>>

pktVars == <<hotkeys, hkModule, net, pktLast>>

vars == <<registryVars, codecVars, serverVars, hookVars, pktVars>>

\* Bound on the register calls made outside initModules.
MaxCalls == 2

\* Bounds on the strings handed to packageString and on its maxSize.
MaxLen == 3
MaxWidth == 4

-----------------------------------------------------------------------------
(* Names and str.lower() *)

NameStone == <<"S", "t", "o", "n", "e">>
NameStoneLower == <<"s", "t", "o", "n", "e">>
NameDirt == <<"D", "i", "r", "t">>

Names == {NameStone, NameStoneLower, NameDirt}
Ids == {1, 2}
\* The modules that declare blocks, and the module that declares packets (register
\* reads a packet's module only for log messages).
Modules == {"A", "B"}
PacketModules == {"A"}

UpperChars == <<"A", "B", "C", "D", "E", "F", "G", "H", "I", "J", "K", "L", "M",
                "N", "O", "P", "Q", "R", "S", "T", "U", "V", "W", "X", "Y", "Z">>
LowerChars == <<"a", "b", "c", "d", "e", "f", "g", "h", "i", "j", "k", "l", "m",
                "n", "o", "p", "q", "r", "s", "t", "u", "v", "w", "x", "y", "z">>

LowerChar(c) ==
    IF \E i \in 1..Len(UpperChars) : UpperChars[i] = c
    THEN LowerChars[CHOOSE i \in 1..Len(UpperChars) : UpperChars[i] = c]
    ELSE c

\* str.lower()
Lower(s) == [i \in 1..Len(s) |-> LowerChar(s[i])]

-----------------------------------------------------------------------------
(* Python dict, in insertion order *)

DictHas(d, key) == \E i \in 1..Len(d) : d[i].k = key

DictGet(d, key) == d[CHOOSE i \in 1..Len(d) : d[i].k = key].v

DictSet(d, key, val) ==
    IF DictHas(d, key)
    THEN [i \in 1..Len(d) |-> IF d[i].k = key THEN [k |-> key, v |-> val] ELSE d[i]]
    ELSE Append(d, [k |-> key, v |-> val])

\* An id-keyed dict whose order nothing reads is a function.
MapSet(f, key, val) == [x \in (DOMAIN f) \cup {key} |-> IF x = key THEN val ELSE f[x]]

EmptyMap == [x \in {} |-> 0]

\* Python compares an int with a str as unequal, whatever their values.
PyEqIntStr(n, s) == FALSE

\* The value a lookup that raised yields here (KeyError, BlockError, PacketError).
NotFound == [NAME |-> <<>>, ID |-> -1, MODNAME |-> "", OVERRIDE |-> FALSE, PLAYERLOOP |-> FALSE]

-----------------------------------------------------------------------------
(* Submodule objects *)

\* AbstractManager._initSubmodule(cls, module): the object of the submodule class,
\* carrying the decorator's NAME and OVERRIDE and the owning module (MODULE.NAME is
\* modelled as the field MODNAME).
InitSubmodule(cls, module) == [cls EXCEPT !.MODNAME = module]

\* The classes a @Block decorator may hand to register.
BlockClasses ==
    [NAME : Names, ID : Ids, MODNAME : {""}, OVERRIDE : BOOLEAN, PLAYERLOOP : {FALSE}]

\* The classes a @RequestPacket decorator may hand to register.
RequestClasses ==
    [NAME : Names, ID : Ids, MODNAME : {""}, OVERRIDE : BOOLEAN, PLAYERLOOP : BOOLEAN]

\* The classes a @ResponsePacket decorator may hand to register (no PLAYERLOOP field:
\* modelled as FALSE, which register never reads for a response packet).
ResponseClasses ==
    [NAME : Names, ID : Ids, MODNAME : {""}, OVERRIDE : BOOLEAN, PLAYERLOOP : {FALSE}]

\* What a call that returned normally reports.
NoError == [exc |-> "none", about |-> "", owners |-> {}]

\* An owner as an error message identifies it: the entry's name with its module.
Owner(e) == <<e.NAME, e.MODNAME>>

-----------------------------------------------------------------------------
(* _BlockManager *)

\* blocks.py:84, the test that an override overrides nothing
BlockOverrideNoEffect(bd, bi, block) ==
    (block.ID \notin DOMAIN bi) /\ ~DictHas(bd, block.NAME)

\* blocks.py:91, the debug message of an effective override reads
\* self._blockIds[block.ID], which raises KeyError when the id is not indexed
BlockOverrideLogRaises(bd, bi, block) ==
    block.OVERRIDE /\ ~BlockOverrideNoEffect(bd, bi, block) /\ block.ID \notin DOMAIN bi

\* Mutant of BlockNameConflict: the override flag is read without its "not".
BlockNameConflictFlagInverted(bd, block) == DictHas(bd, block.NAME) /\ block.OVERRIDE

\* blocks.py:95
BlockNameConflict(bd, block) == DictHas(bd, block.NAME) /\ ~block.OVERRIDE

\* blocks.py:102, the negation of the test that lets the id be (re)indexed
BlockIdConflict(bi, block) == ~(block.ID \notin DOMAIN bi \/ block.OVERRIDE)

\* _BlockManager.register: the outcome and the two maps after the call
BlockRegister(bd, bi, blockClass, module) ==
    LET block == InitSubmodule(blockClass, module)
        same == [dict |-> bd, ids |-> bi]
    IN  IF BlockOverrideLogRaises(bd, bi, block)
        THEN same @@ [out |-> [exc |-> "KeyError", about |-> "id", owners |-> {}],
                      warned |-> FALSE]
        ELSE LET warned == block.OVERRIDE /\ BlockOverrideNoEffect(bd, bi, block)
             IN  IF BlockNameConflict(bd, block)
                 THEN same @@ [out |-> [exc |-> "InitRegisterError", about |-> "name",
                                        owners |-> {}],
                               warned |-> warned]
                 ELSE IF BlockIdConflict(bi, block)
                 THEN same @@ [out |-> [exc |-> "InitRegisterError", about |-> "id",
                                        owners |-> {Owner(bi[block.ID]), Owner(block)}],
                               warned |-> warned]
                 ELSE [dict |-> DictSet(bd, block.NAME, block),
                       ids |-> MapSet(bi, block.ID, block),
                       out |-> NoError,
                       warned |-> warned]

\* _BlockManager.__len__
BlockCount(bd) == Len(bd)

\* _BlockManager.__contains__
BlockContains(bd, name) == DictHas(bd, name)

\* _BlockManager.getBlockById
getBlockById(bi, blockId) == IF blockId \in DOMAIN bi THEN bi[blockId] ELSE NotFound

\* _BlockManager.getBlock
getBlock(bd, name, ignoreCase) ==
    IF ignoreCase
    THEN IF \E i \in 1..Len(bd) : Lower(bd[i].k) = Lower(name)
         THEN bd[CHOOSE i \in 1..Len(bd) :
                    /\ Lower(bd[i].k) = Lower(name)
                    /\ \A j \in 1..(i - 1) : Lower(bd[j].k) # Lower(name)].v
         ELSE NotFound
    ELSE IF DictHas(bd, name) THEN DictGet(bd, name) ELSE NotFound

-----------------------------------------------------------------------------
(* _DirectionalPacketManager *)

\* _DirectionalPacketManager.getAllPacketIds
getAllPacketIds(pd) == [i \in 1..Len(pd) |-> pd[i].v.ID]

\* packet.py:151, the test that an override overrides nothing: it looks the id up
\* among the dict's keys (the names) and the name up among the ids
PacketOverrideNoEffect(pd, packet) ==
    /\ ~(\E i \in 1..Len(pd) : PyEqIntStr(packet.ID, pd[i].k))
    /\ ~(\E i \in 1..Len(pd) : PyEqIntStr(getAllPacketIds(pd)[i], packet.NAME))

\* packet.py:157, the debug message of an effective override reads
\* self._packetDict[packet.NAME], which raises KeyError for a name not registered
PacketOverrideLogRaises(pd, packet) ==
    packet.OVERRIDE /\ ~PacketOverrideNoEffect(pd, packet) /\ ~DictHas(pd, packet.NAME)

\* packet.py:161
PacketNameConflict(pd, packet) == DictHas(pd, packet.NAME) /\ ~packet.OVERRIDE

\* packet.py:163
PacketIdConflict(pd, packet) ==
    (\E i \in 1..Len(pd) : getAllPacketIds(pd)[i] = packet.ID) /\ ~packet.OVERRIDE

\* packet.py:167-171, the player-loop cache after the call; isRequest is
\* isinstance(packet, AbstractRequestPacket)
LoopPacketsAfter(lp, packet, isRequest) ==
    IF isRequest /\ packet.PLAYERLOOP THEN MapSet(lp, packet.ID, packet) ELSE lp

\* A register that writes the player-loop cache before it checks for conflicts.
PacketRegisterCachesFirst(pd, lp, packetClass, module, isRequest) ==
    LET packet == InitSubmodule(packetClass, module)
        cached == LoopPacketsAfter(lp, packet, isRequest)
    IN  IF PacketNameConflict(pd, packet) \/ PacketIdConflict(pd, packet)
        THEN [dict |-> pd, loop |-> cached,
              out |-> [exc |-> "InitRegisterError", about |-> "name", owners |-> {}],
              warned |-> FALSE]
        ELSE [dict |-> DictSet(pd, packet.NAME, packet), loop |-> cached, out |-> NoError,
              warned |-> FALSE]

\* _DirectionalPacketManager.register: the outcome, the dict and the cache after the call
PacketRegister(pd, lp, packetClass, module, isRequest) ==
    LET packet == InitSubmodule(packetClass, module)
        same == [dict |-> pd, loop |-> lp]
    IN  IF PacketOverrideLogRaises(pd, packet)
        THEN same @@ [out |-> [exc |-> "KeyError", about |-> "name", owners |-> {}],
                      warned |-> FALSE]
        ELSE LET warned == packet.OVERRIDE /\ PacketOverrideNoEffect(pd, packet)
             IN  IF PacketNameConflict(pd, packet)
                 THEN same @@ [out |-> [exc |-> "InitRegisterError", about |-> "name",
                                        owners |-> {}],
                               warned |-> warned]
                 ELSE IF PacketIdConflict(pd, packet)
                 THEN same @@ [out |-> [exc |-> "InitRegisterError", about |-> "id",
                                        owners |-> {}],
                               warned |-> warned]
                 ELSE [dict |-> DictSet(pd, packet.NAME, packet),
                       loop |-> LoopPacketsAfter(lp, packet, isRequest),
                       out |-> NoError,
                       warned |-> warned]

\* _DirectionalPacketManager.getPacketById
getPacketById(pd, packetId) ==
    IF \E i \in 1..Len(pd) : pd[i].v.ID = packetId
    THEN pd[CHOOSE i \in 1..Len(pd) :
                /\ pd[i].v.ID = packetId
                /\ \A j \in 1..(i - 1) : pd[j].v.ID # packetId].v
    ELSE NotFound

\* _DirectionalPacketManager.getPacket
getPacket(pd, name, ignoreCase) ==
    IF ignoreCase
    THEN IF \E i \in 1..Len(pd) : Lower(pd[i].k) = Lower(name)
         THEN pd[CHOOSE i \in 1..Len(pd) :
                    /\ Lower(pd[i].k) = Lower(name)
                    /\ \A j \in 1..(i - 1) : Lower(pd[j].k) # Lower(name)].v
         ELSE NotFound
    ELSE IF DictHas(pd, name) THEN DictGet(pd, name) ELSE NotFound

\* _DirectionalPacketManager.__len__
PacketCount(pd) == Len(pd)

\* _DirectionalPacketManager.__contains__
PacketContains(pd, name) == DictHas(pd, name)

\* The direction a directional manager is constructed with, packet.py:217-218
ManagerDirection(reg) == IF reg = "request" THEN "REQUEST" ELSE "RESPONSE"

\* The DIRECTION attribute of a packet object: AbstractRequestPacket.DIRECTION for
\* the classes @RequestPacket registers, AbstractResponsePacket.DIRECTION for the
\* classes @ResponsePacket registers; no packet class sets it otherwise.
PacketDirection(reg) == IF reg = "request" THEN "REQUEST" ELSE "REQUEST"

-----------------------------------------------------------------------------
(* Packet utilities: packageString, unpackString and struct's fixed-width fields *)

\* A string is a sequence of code points, a bytearray a sequence of byte values.
NUL == 0
TAB == 9
SPACE == 32
CharH == 104
CharI == 105
CharEAcute == 233

\* The characters the strings are drawn from: NUL, tab, space, "h", "i" and the
\* non-ASCII e-acute.
Chars == {NUL, TAB, SPACE, CharH, CharI, CharEAcute}

\* The strings of at most n characters.
RECURSIVE StringsUpTo(_)
StringsUpTo(n) ==
    IF n = 0 THEN {<<>>}
    ELSE LET shorter == StringsUpTo(n - 1)
         IN  shorter \cup {Append(s, c) : s \in {t \in shorter : Len(t) = n - 1}, c \in Chars}

\* What str.strip() with no argument removes: the ASCII white space.
IsWhitespace(c) == c \in {9, 10, 11, 12, 13, 28, 29, 30, 31, 32}

\* The ASCII codec encodes and decodes the code points below 128 only.
IsAscii(c) == c < 128

\* str.strip(): white space is removed at both ends
Strip(s) ==
    IF \A i \in 1..Len(s) : IsWhitespace(s[i])
    THEN <<>>
    ELSE LET first == CHOOSE i \in 1..Len(s) :
                          ~IsWhitespace(s[i]) /\ \A j \in 1..(i - 1) : IsWhitespace(s[j])
             final == CHOOSE i \in 1..Len(s) :
                          ~IsWhitespace(s[i]) /\ \A j \in (i + 1)..Len(s) : IsWhitespace(s[j])
         IN  SubSeq(s, first, final)

\* bytearray.replace(b'\x00', b'')
RemoveNul(data) == SelectSeq(data, LAMBDA b : b # NUL)

\* bytes.decode("ascii", errors="ignore"): the bytes that are not ASCII are dropped
DecodeAsciiIgnore(data) == SelectSeq(data, IsAscii)

\* unpackString, packet.py:30
unpackString(data) == Strip(DecodeAsciiIgnore(RemoveNul(data)))

\* data[:maxSize]
Truncate(data, maxSize) ==
    SubSeq(data, 1, IF Len(data) < maxSize THEN Len(data) ELSE maxSize)

\* A ljust that pads nothing.
LjustNoPad(s, maxSize) == s

\* str.ljust(maxSize): spaces are appended up to maxSize characters
Ljust(s, maxSize) ==
    [i \in 1..(IF Len(s) < maxSize THEN maxSize ELSE Len(s)) |->
        IF i <= Len(s) THEN s[i] ELSE SPACE]

\* bytearray(s, "ascii"): one byte per character, UnicodeEncodeError for a character
\* that is not ASCII
EncodeAscii(s) ==
    IF \A i \in 1..Len(s) : IsAscii(s[i])
    THEN [exc |-> "none", bytes |-> s]
    ELSE [exc |-> "UnicodeEncodeError", bytes |-> <<>>]

\* packageString, packet.py:38
packageString(data, maxSize) == EncodeAscii(Ljust(Truncate(data, maxSize), maxSize))

\* Nothing packed yet.
NotPacked == [exc |-> "none", bytes |-> <<>>]

-----------------------------------------------------------------------------
(* The registries together, and _ModuleManager.initModules *)

\* The registries as one value: bd, bi the block manager's maps; rd, lp the request
\* manager's dict and player-loop cache; sd the response manager's dict.
Registries == [bd |-> blockDict, bi |-> blockIds, rd |-> requestDict,
               lp |-> loopPackets, sd |-> responseDict]

\* Decorators whose two packet managers share one dict.
ApplyDecoratorSharedDict(R, c) ==
    IF c.reg = "block"
    THEN LET r == BlockRegister(R.bd, R.bi, c.cls, c.module)
         IN  [R |-> [R EXCEPT !.bd = r.dict, !.bi = r.ids], out |-> r.out, warned |-> r.warned]
    ELSE LET r == PacketRegister(R.rd \o R.sd, R.lp, c.cls, c.module, c.reg = "request")
         IN  [R |-> [R EXCEPT !.rd = r.dict, !.sd = r.dict, !.lp = r.loop],
              out |-> r.out, warned |-> r.warned]

\* One decorator call: @Block, @RequestPacket or @ResponsePacket applied by module
\* c.module to class c.cls; the registries after it, and its outcome.
ApplyDecorator(R, c) ==
    IF c.reg = "block"
    THEN LET r == BlockRegister(R.bd, R.bi, c.cls, c.module)
         IN  [R |-> [R EXCEPT !.bd = r.dict, !.bi = r.ids], out |-> r.out, warned |-> r.warned]
    ELSE IF c.reg = "request"
    THEN LET r == PacketRegister(R.rd, R.lp, c.cls, c.module, TRUE)
         IN  [R |-> [R EXCEPT !.rd = r.dict, !.lp = r.loop], out |-> r.out, warned |-> r.warned]
    ELSE LET r == PacketRegister(R.sd, EmptyMap, c.cls, c.module, FALSE)
         IN  [R |-> [R EXCEPT !.sd = r.dict], out |-> r.out, warned |-> r.warned]

\* module.py:66-71, loading the modules found: every decorator of every module runs in
\* order, and the first exception leaves the loop with what was registered before it
RECURSIVE LoadModules(_, _)
LoadModules(R, calls) ==
    IF calls = <<>>
    THEN [R |-> R, out |-> NoError]
    ELSE LET r == ApplyDecorator(R, Head(calls))
         IN  IF r.out.exc # "none"
             THEN [R |-> r.R, out |-> r.out]
             ELSE LoadModules(r.R, Tail(calls))

\* Mutant of ShouldLoad: the completed flag is not consulted.
ShouldLoadAlways(done) == TRUE

\* module.py:54, the guard of initModules
ShouldLoad(done) == ~done

\* _ModuleManager.initModules: the registries, the flag and the outcome after the call
initModules(R, done, folder) ==
    IF ShouldLoad(done)
    THEN LET r == LoadModules(R, folder)
         IN  [R |-> r.R, completed |-> IF r.out.exc = "none" THEN TRUE ELSE done,
              out |-> r.out]
    ELSE [R |-> R, completed |-> done, out |-> NoError]

Cls(name, id, override, loop) ==
    [NAME |-> name, ID |-> id, MODNAME |-> "", OVERRIDE |-> override, PLAYERLOOP |-> loop]

\* What pkgutil.walk_packages finds in the modules folder: the decorators of the core
\* module, in the order in which loading the module runs them.
ModulesFolder ==
    << [reg |-> "block", cls |-> Cls(NameStone, 1, FALSE, FALSE), module |-> "A"],
       [reg |-> "request", cls |-> Cls(NameStone, 1, FALSE, TRUE), module |-> "A"],
       [reg |-> "response", cls |-> Cls(NameDirt, 2, FALSE, FALSE), module |-> "A"] >>

-----------------------------------------------------------------------------
(* Connections: capability negotiation, codec errors by criticality, and the
   ClickDistance module *)

\* Bound on the codec errors raised while serving.
MaxErrors == 2

\* Bound on the packets sent to one connection.
MaxSent == 2

Conns == {1, 2}

\* CPEExtension(name, version)
CPEExtension(name, version) == [name |-> name, version |-> version]

\* The extensions a peer may list: ClickDistance in two versions, TextHotKey.
Exts == {CPEExtension("ClickDistance", 1), CPEExtension("ClickDistance", 2),
         CPEExtension("TextHotKey", 1)}

\* The extensions the modules of the server declare with @CPE.
ModuleExts == {CPEExtension("ClickDistance", 1), CPEExtension("TextHotKey", 1)}

\* The effective capability set of a connection: the pairs both sides listed.
Negotiate(serverList, clientList) == serverList \cap clientList

\* A supports that ignores the version.
SupportsAnyVersion(player, ext) == \E e \in player.caps : e.name = ext.name

\* Player.supports(extension)
supports(player, ext) == ext \in player.caps

\* The packet classes whose encoding or decoding may fail.
SetClickDistancePacket == [NAME |-> "SetClickDistance", ID |-> 18, CRITICAL |-> FALSE]
SetTextHotKeyPacket == [NAME |-> "SetTextHotKey", ID |-> 21, CRITICAL |-> FALSE]
CriticalPacket == [NAME |-> "Critical", ID |-> 0, CRITICAL |-> TRUE]
PacketClasses == {SetClickDistancePacket, SetTextHotKeyPacket, CriticalPacket}

\* An onError that lets the error through.
OnErrorReraises(log, cls) == [log |-> log, raised |-> TRUE]

\* AbstractPacket.onError: the error is logged, nothing is raised
onError(log, cls) == [log |-> log + 1, raised |-> FALSE]

\* A connection before accept, and after teardown.
NoConn == [state |-> "none", handshaken |-> FALSE, listed |-> {}, caps |-> {},
           joined |-> FALSE, sent |-> <<>>]
ClosedConn == [NoConn EXCEPT !.state = "closed"]

\* The handler of a connection catches an error raised by the encoding or the
\* decoding of a packet: a critical packet tears the connection down, any other
\* packet has its onError called and the connection goes on.
HandleCodecError(cs, log, c, cls) ==
    IF cls.CRITICAL
    THEN [conns |-> [cs EXCEPT ![c] = ClosedConn], log |-> log]
    ELSE LET r == onError(log, cls)
         IN  [conns |-> IF r.raised THEN [cs EXCEPT ![c] = ClosedConn] ELSE cs,
              log |-> r.log]

\* ClickDistanceConfig.defaultClickDistance and ClickDistanceMetadata.distance
DefaultClickDistance == 160
\* Another distance, as set by a command.
OtherClickDistance == 50
Distances == {DefaultClickDistance, OtherClickDistance}
\* The world has no clickDistance attribute.
NoDistance == -1

\* ClickDistanceModule.__init__ raises before anything is initialised.
InitRaises == TRUE

\* The module's postInit has run: its methods and hooks are injected.
Injected(module) == module = "loaded"

\* dispatcher.sendPacket(packet, arg): the packet is serialized and written to
\* the connection
sendPacket(cs, c, cls, arg) ==
    [cs EXCEPT ![c].sent = Append(@, [packet |-> cls.NAME, arg |-> arg])]

\* playerManager.sendWorldPacket(packet, arg): sendPacket to every player of the world
RECURSIVE sendWorldPacket(_, _, _, _)
sendWorldPacket(cs, todo, cls, arg) ==
    IF todo = {} THEN cs
    ELSE LET c == CHOOSE x \in todo : TRUE
         IN  sendWorldPacket(IF cs[c].state = "open" /\ cs[c].joined
                             THEN sendPacket(cs, c, cls, arg) ELSE cs,
                             todo \ {c}, cls, arg)

\* Player.setClickDistance, injected by the module
setClickDistance(cs, c, distance) == sendPacket(cs, c, SetClickDistancePacket, distance)

\* World.setWorldClickDistance, injected by the module
setWorldClickDistance(cs, w, distance, notifyPlayers) ==
    [world |-> [w EXCEPT !.clickDistance = distance, !.metadata = distance],
     conns |-> IF notifyPlayers
               THEN sendWorldPacket(cs, Conns, SetClickDistancePacket, distance)
               ELSE cs]

\* sendClickDistance, the AFTER hook on WorldPlayerManager.joinPlayer
sendClickDistance(cs, w, c) == setClickDistance(cs, c, w.clickDistance)

\* loadWorldClickDistance, the AFTER hook on World.__init__: metadata the world
\* file lacks is created with the default distance, and world.clickDistance is
\* that metadata object
loadWorldClickDistance(w) ==
    LET metadata == IF w.metadata = NoDistance THEN DefaultClickDistance ELSE w.metadata
    IN  [w EXCEPT !.metadata = metadata, !.clickDistance = metadata]

\* The outcome recorded for an operation that is not a call.
NoSrvOp == [op |-> "none", c |-> 0, arg |-> <<>>, exc |-> "none", result |-> FALSE,
            pre |-> <<>>]

\* Nothing is being served.
ServerIdle ==
    /\ server = [exts |-> {}, running |-> FALSE]
    /\ clickModule = "unloaded"
    /\ world = [created |-> FALSE, metadata |-> NoDistance, clickDistance |-> NoDistance]
    /\ conns = [c \in Conns |-> NoConn]
    /\ errLog = 0
    /\ srvLast = NoSrvOp

-----------------------------------------------------------------------------
(* The hook engine: registerHook, and the invocation of an extension point *)

\* Bound on the bindings registered.
MaxBindings == 4

\* The operations the modules inject into.
Targets == {"WorldPlayerManager.joinPlayer", "World.__init__"}

\* InjectionPoint
Timings == {"BEFORE", "AFTER", "REPLACE"}

\* What the handlers and the body receive and return.
Input == <<"input", 0>>
BodyResult == <<"body", 0>>
ReplaceResult(b) == <<"replace", b.order>>
AfterResult(b) == <<"after", b.order>>
NoResult == <<"none", 0>>

\* The bindings of one target and one timing, the first registered last.
BindingsOfReversed(bs, target, timing) ==
    LET sel == SelectSeq(bs, LAMBDA b : b.target = target /\ b.timing = timing)
    IN  [i \in 1..Len(sel) |-> sel[Len(sel) + 1 - i]]

\* The bindings of one target and one timing, in registration order.
BindingsOf(bs, target, timing) ==
    SelectSeq(bs, LAMBDA b : b.target = target /\ b.timing = timing)

HasReplace(bs, target) == BindingsOf(bs, target, "REPLACE") # <<>>

\* A binding: fails says that the handler raises when run (BEFORE handlers),
\* transforms that it returns a result of its own (AFTER handlers).
Binding(target, timing, order, fails, transforms) ==
    [target |-> target, timing |-> timing, order |-> order, fails |-> fails,
     transforms |-> transforms]

\* A registerHook that accepts any binding.
RegisterHookNoConflict(bs, target, timing, fails, transforms) ==
    [bindings |-> Append(bs, Binding(target, timing, Len(bs) + 1, fails, transforms)),
     exc |-> "none"]

\* registerHook(targetIdentifier, timing, handler)
registerHook(bs, target, timing, fails, transforms) ==
    IF timing = "REPLACE" /\ HasReplace(bs, target)
    THEN [bindings |-> bs, exc |-> "HookConflict"]
    ELSE [bindings |-> Append(bs, Binding(target, timing, Len(bs) + 1, fails, transforms)),
          exc |-> "none"]

\* One step of an invocation: what ran, and what it was given.
Step(kind, order, got) == [kind |-> kind, order |-> order, got |-> got]

\* A step 1 that goes on after a failure.
RECURSIVE RunBeforeIgnoringFailure(_, _)
RunBeforeIgnoringFailure(befores, trace) ==
    IF befores = <<>> THEN [trace |-> trace, exc |-> "none", by |-> 0]
    ELSE RunBeforeIgnoringFailure(Tail(befores),
                                  Append(trace, Step("before", Head(befores).order, Input)))

\* Step 1: the BEFORE bindings run in order; one that fails ends the invocation.
RECURSIVE RunBefore(_, _)
RunBefore(befores, trace) ==
    IF befores = <<>> THEN [trace |-> trace, exc |-> "none", by |-> 0]
    ELSE LET b == Head(befores)
             t == Append(trace, Step("before", b.order, Input))
         IN  IF b.fails THEN [trace |-> t, exc |-> "HandlerError", by |-> b.order]
             ELSE RunBefore(Tail(befores), t)

\* A step 2 that runs the default body whatever is bound.
MainStepBodyOnly(bs, target) == [step |-> Step("body", 0, Input), result |-> BodyResult]

\* Step 2: the REPLACE binding if there is one, else the default body.
MainStep(bs, target) ==
    IF HasReplace(bs, target)
    THEN LET r == BindingsOf(bs, target, "REPLACE")[1]
         IN  [step |-> Step("replace", r.order, Input), result |-> ReplaceResult(r)]
    ELSE [step |-> Step("body", 0, Input), result |-> BodyResult]

\* A step 3 that hands every AFTER binding the result of step 2 and returns that.
RECURSIVE RunAfterDiscarding(_, _, _)
RunAfterDiscarding(afters, trace, result) ==
    IF afters = <<>> THEN [trace |-> trace, result |-> result]
    ELSE RunAfterDiscarding(Tail(afters),
                            Append(trace, Step("after", Head(afters).order, result)), result)

\* Step 3: the AFTER bindings run in order, each given the result so far.
RECURSIVE RunAfter(_, _, _)
RunAfter(afters, trace, result) ==
    IF afters = <<>> THEN [trace |-> trace, result |-> result]
    ELSE LET b == Head(afters)
         IN  RunAfter(Tail(afters), Append(trace, Step("after", b.order, result)),
                      IF b.transforms THEN AfterResult(b) ELSE result)

\* The invocation of the extension point target.
Invoke(bs, target) ==
    LET bef == RunBefore(BindingsOf(bs, target, "BEFORE"), <<>>)
    IN  IF bef.exc # "none"
        THEN [trace |-> bef.trace, exc |-> bef.exc, by |-> bef.by, result |-> NoResult]
        ELSE LET main == MainStep(bs, target)
                 post == RunAfter(BindingsOf(bs, target, "AFTER"),
                                  Append(bef.trace, main.step), main.result)
             IN  [trace |-> post.trace, exc |-> "none", by |-> 0, result |-> post.result]

\* The record of the last hook operation when none was made.
NoHookOp == [op |-> "none", target |-> "", timing |-> "", exc |-> "none", by |-> 0,
             trace |-> <<>>, result |-> NoResult, pre |-> <<>>]

\* No hook is bound, nothing was invoked.
HooksIdle ==
    /\ bindings = <<>>
    /\ hookLast = NoHookOp

-----------------------------------------------------------------------------
(* struct formats, serialize of the two extension packets, and the TextHotKey
   module *)

\* Bound on the hotkeys of the configuration.
MaxHotkeys == 2

\* packageString's default maxSize, and the 64s fields of SetTextHotKey.
StringFieldSize == 64

\* A Python value with its type: a str (its code points), a bytes object (its
\* bytes), an int (one number).
StrVal(s) == [type |-> "str", val |-> s]
BytesVal(b) == [type |-> "bytes", val |-> b]
IntVal(n) == [type |-> "int", val |-> <<n>>]

\* One field of a struct format: its format character and its repeat count.
Field(code, count) == [code |-> code, count |-> count]

\* FORMAT="!Bh" and FORMAT="!B64s64siB": network byte order, no padding
FormatSetClickDistance == <<Field("B", 1), Field("h", 1)>>
FormatSetTextHotKey ==
    <<Field("B", 1), Field("s", StringFieldSize), Field("s", StringFieldSize),
      Field("i", 1), Field("B", 1)>>
\* AbstractPacket.FORMAT = ""
FormatEmpty == <<>>

\* The bytes one field takes: B 1, h 2, i 4, and count for s.
FieldWidth(f) ==
    IF f.code = "B" THEN 1 ELSE IF f.code = "h" THEN 2 ELSE IF f.code = "i" THEN 4
    ELSE f.count

\* A calcsize that leaves the first field out.
RECURSIVE CalcsizeWithoutFirst(_)
CalcsizeWithoutFirst(fmt) ==
    IF Len(fmt) <= 1 THEN 0
    ELSE FieldWidth(fmt[Len(fmt)]) + CalcsizeWithoutFirst(SubSeq(fmt, 1, Len(fmt) - 1))

\* struct.calcsize
RECURSIVE calcsize(_)
calcsize(fmt) == IF fmt = <<>> THEN 0 ELSE FieldWidth(Head(fmt)) + calcsize(Tail(fmt))

\* The big-endian bytes of n in width bytes, n taken modulo 256^width.
RECURSIVE BigEndian(_, _)
BigEndian(n, width) ==
    IF width = 0 THEN <<>> ELSE Append(BigEndian((n - (n % 256)) \div 256, width - 1), n % 256)

\* The values a field of integer type accepts.
FieldMin(f) == IF f.code = "B" THEN 0 ELSE IF f.code = "h" THEN -32768 ELSE -2147483647 - 1
FieldMax(f) == IF f.code = "B" THEN 255 ELSE IF f.code = "h" THEN 32767 ELSE 2147483647

\* struct.pack of one value: an integer field takes an int in its range, an s
\* field a bytes object, cut or NUL-padded to count bytes; anything else is
\* struct.error
PackField(f, value) ==
    IF f.code = "s"
    THEN IF value.type = "bytes"
         THEN [exc |-> "none",
               bytes |-> [i \in 1..f.count |->
                             IF i <= Len(value.val) THEN value.val[i] ELSE NUL]]
         ELSE [exc |-> "struct.error", bytes |-> <<>>]
    ELSE IF value.type = "int" /\ value.val[1] >= FieldMin(f) /\ value.val[1] <= FieldMax(f)
         THEN [exc |-> "none", bytes |-> BigEndian(value.val[1], FieldWidth(f))]
         ELSE [exc |-> "struct.error", bytes |-> <<>>]

\* struct.pack(fmt, *values)
RECURSIVE pack(_, _)
pack(fmt, values) ==
    IF Len(fmt) # Len(values) THEN [exc |-> "struct.error", bytes |-> <<>>]
    ELSE IF fmt = <<>> THEN [exc |-> "none", bytes |-> <<>>]
    ELSE LET h == PackField(Head(fmt), Head(values))
             t == pack(Tail(fmt), Tail(values))
         IN  IF h.exc # "none" THEN h
             ELSE IF t.exc # "none" THEN t
             ELSE [exc |-> "none", bytes |-> h.bytes \o t.bytes]

\* The FORMAT a packet class passes to its __init__ ("" unless it passes one).
FormatOf(cls) ==
    IF cls.NAME = SetClickDistancePacket.NAME THEN FormatSetClickDistance
    ELSE IF cls.NAME = SetTextHotKeyPacket.NAME THEN FormatSetTextHotKey
    ELSE FormatEmpty

\* AbstractPacket.SIZE
SIZE(packet) == calcsize(FormatOf(packet))

\* SetClickDistancePacket.serialize(distance)
serializeSetClickDistance(distance) ==
    pack(FormatOf(SetClickDistancePacket), <<IntVal(SetClickDistancePacket.ID), distance>>)

\* bytes(packageString(x)): x[:maxSize] raises TypeError for an int
PackagedBytes(x) ==
    IF x.type # "str" THEN [exc |-> "TypeError", bytes |-> <<>>]
    ELSE packageString(x.val, StringFieldSize)

\* SetTextHotKeyPacket.serialize(label, action, keyCode, keyMods)
serializeSetTextHotKey(label, action, keyCode, keyMods) ==
    LET l == PackagedBytes(label)
        a == PackagedBytes(action)
    IN  IF l.exc # "none" THEN l
        ELSE IF a.exc # "none" THEN a
        ELSE pack(FormatOf(SetTextHotKeyPacket),
                  <<IntVal(SetTextHotKeyPacket.ID), BytesVal(l.bytes), BytesVal(a.bytes),
                    keyCode, keyMods>>)

\* The texts and numbers the configuration is written with.
TextHi == <<CharH, CharI>>
LabelH == <<CharH>>
LabelI == <<CharI>>
Labels == {LabelH, LabelI}
KeyCodeSample == 30
KeyModsSample == 3

\* The data of one hotkey: a dict that has or lacks each of the three fields.
\* What a field may hold: nothing, a text, a number.
Missing == [type |-> "missing", val |-> <<>>]
ActionValues == {Missing, StrVal(TextHi), IntVal(KeyCodeSample)}
KeyCodeValues == {IntVal(KeyCodeSample), StrVal(TextHi)}
KeyModsValues == {Missing, IntVal(KeyModsSample)}
HotkeyData == [action : ActionValues, keyCode : KeyCodeValues, keyMods : KeyModsValues]

\* "field" in data
HasField(data, field) == data[field] # Missing

\* The configurations: dicts from label to data, in insertion order.
RECURSIVE HotkeyConfigs(_)
HotkeyConfigs(n) ==
    IF n = 0 THEN {<<>>}
    ELSE LET shorter == HotkeyConfigs(n - 1)
         IN  shorter \cup
             {Append(c, [k |-> l, v |-> d]) :
                 c \in {x \in shorter : Len(x) = n - 1}, l \in Labels, d \in HotkeyData}

\* The configurations a dict can be: no label twice.
ValidConfigs(n) ==
    {c \in HotkeyConfigs(n) : \A i, j \in 1..Len(c) : i # j => c[i].k # c[j].k}

\* One test of postInit, texthotkey.py:38-43:
\*     if not ("field" in data or isinstance(data["field"], type)): raise ModuleError
\* With the field present the "or" is true and nothing is raised, whatever the
\* type; with the field absent data["field"] is evaluated and raises KeyError.
CheckField(data, field, pytype) ==
    IF HasField(data, field) THEN "none"
    ELSE "KeyError"

\* The three tests on one hotkey, in order.
CheckHotkey(data) ==
    IF CheckField(data, "action", "str") # "none" THEN CheckField(data, "action", "str")
    ELSE IF CheckField(data, "keyCode", "str") # "none" THEN CheckField(data, "keyCode", "str")
    ELSE CheckField(data, "keyMods", "int")

\* TextHotKeyModule.postInit's verification loop: the first exception raised
RECURSIVE VerifyHotkeys(_)
VerifyHotkeys(hks) ==
    IF hks = <<>> THEN "none"
    ELSE IF CheckHotkey(Head(hks).v) # "none" THEN CheckHotkey(Head(hks).v)
    ELSE VerifyHotkeys(Tail(hks))

\* dispatcher.sendPacket(Packets.Response.SetTextHotKey, ...): the packet is
\* serialized and written; a serialize that raises writes nothing, the packet
\* not being critical.
RECURSIVE SendHotkeys(_, _)
SendHotkeys(hks, sent) ==
    IF hks = <<>> THEN sent
    ELSE LET h == Head(hks)
             r == serializeSetTextHotKey(StrVal(h.k), h.v.action, h.v.keyCode, h.v.keyMods)
         IN  SendHotkeys(Tail(hks),
                         IF r.exc = "none"
                         THEN Append(sent, [packet |-> SetTextHotKeyPacket.NAME, label |-> h.k])
                         ELSE sent)

\* sendTextHotkeys, the AFTER hook on NetworkHandler._processPostLogin
sendTextHotkeys(handler, hks) ==
    IF ~handler.hasPlayer
    THEN [sent |-> handler.sent, exc |-> "ServerError"]
    ELSE IF supports(handler, CPEExtension("TextHotKey", 1))
    THEN [sent |-> SendHotkeys(hks, handler.sent), exc |-> "none"]
    ELSE [sent |-> handler.sent, exc |-> "none"]

\* The record of the last packet operation when none was made.
NoPktOp == [op |-> "none", exc |-> "none", packet |-> CriticalPacket, bytes |-> <<>>,
            sentBefore |-> <<>>]

\* A network handler without a player.
NoHandler == [hasPlayer |-> FALSE, caps |-> {}, sent |-> <<>>, loggedIn |-> FALSE]

\* No module is configured, nothing is serialized.
PacketsIdle ==
    /\ hotkeys = <<>>
    /\ hkModule = "unloaded"
    /\ net = NoHandler
    /\ pktLast = NoPktOp

-----------------------------------------------------------------------------
(* The state machine *)

\* No codec call is under way.
CodecIdle ==
    /\ codecIn = [v |-> <<>>, w |-> 0]
    /\ codecOut = [pc |-> "idle", packed |-> NotPacked, text |-> <<>>]

RegistryIdle ==
    /\ blockDict = <<>>
    /\ blockIds = EmptyMap
    /\ requestDict = <<>>
    /\ loopPackets = EmptyMap
    /\ responseDict = <<>>
    /\ completed = FALSE
    /\ nCalls = 0
    /\ last = [op |-> "none", reg |-> "", entry |-> NotFound, out |-> NoError,
               warned |-> FALSE]
    /\ pre = [R |-> [bd |-> <<>>, bi |-> EmptyMap, rd |-> <<>>, lp |-> EmptyMap,
                     sd |-> <<>>],
              completed |-> FALSE]

Init ==
    /\ RegistryIdle
    /\ CodecIdle
    /\ ServerIdle
    /\ HooksIdle
    /\ PacketsIdle

\* A register call made by a decorator, on the registry reg.
Register(reg, cls, module) ==
    /\ nCalls < MaxCalls
    /\ LET r == ApplyDecorator(Registries, [reg |-> reg, cls |-> cls, module |-> module])
       IN  /\ blockDict' = r.R.bd
           /\ blockIds' = r.R.bi
           /\ requestDict' = r.R.rd
           /\ loopPackets' = r.R.lp
           /\ responseDict' = r.R.sd
           /\ last' = [op |-> "register", reg |-> reg, entry |-> InitSubmodule(cls, module),
                       out |-> r.out, warned |-> r.warned]
    /\ pre' = [R |-> Registries, completed |-> completed]
    /\ nCalls' = nCalls + 1
    /\ UNCHANGED completed
    /\ UNCHANGED <<codecVars, serverVars, hookVars, pktVars>>

RegisterBlock == \E cls \in BlockClasses, m \in Modules : Register("block", cls, m)

RegisterRequestPacket == \E cls \in RequestClasses, m \in PacketModules : Register("request", cls, m)

RegisterResponsePacket == \E cls \in ResponseClasses, m \in PacketModules : Register("response", cls, m)

InitModules ==
    /\ LET r == initModules(Registries, completed, ModulesFolder)
       IN  /\ blockDict' = r.R.bd
           /\ blockIds' = r.R.bi
           /\ requestDict' = r.R.rd
           /\ loopPackets' = r.R.lp
           /\ responseDict' = r.R.sd
           /\ completed' = r.completed
           /\ last' = [op |-> "initModules", reg |-> "", entry |-> NotFound, out |-> r.out,
                       warned |-> FALSE]
    /\ pre' = [R |-> Registries, completed |-> completed]
    /\ UNCHANGED nCalls
    /\ UNCHANGED <<codecVars, serverVars, hookVars, pktVars>>

Next ==
    \/ RegisterBlock
    \/ RegisterRequestPacket
    \/ RegisterResponsePacket
    \/ InitModules

Spec == Init /\ [][Next]_vars

-----------------------------------------------------------------------------
(* The state machine of the packet utilities: a string is packed into a
   fixed-width field, and the field is unpacked again *)

InitCodec ==
    /\ RegistryIdle
    /\ ServerIdle
    /\ HooksIdle
    /\ PacketsIdle
    /\ codecIn \in [v : StringsUpTo(MaxLen), w : 0..MaxWidth]
    /\ codecOut = [pc |-> "start", packed |-> NotPacked, text |-> <<>>]

\* packageString(v, w) is called; it returns the bytes or raises.
PackageString ==
    /\ codecOut.pc = "start"
    /\ LET r == packageString(codecIn.v, codecIn.w)
       IN  codecOut' = [codecOut EXCEPT !.pc = IF r.exc = "none" THEN "packed" ELSE "raised",
                                        !.packed = r]
    /\ UNCHANGED codecIn
    /\ UNCHANGED <<registryVars, serverVars, hookVars, pktVars>>

\* unpackString is called on the bytes packageString returned.
UnpackString ==
    /\ codecOut.pc = "packed"
    /\ codecOut' = [codecOut EXCEPT !.pc = "done", !.text = unpackString(codecOut.packed.bytes)]
    /\ UNCHANGED codecIn
    /\ UNCHANGED <<registryVars, serverVars, hookVars, pktVars>>

NextCodec ==
    \/ PackageString
    \/ UnpackString

SpecCodec == InitCodec /\ [][NextCodec]_vars

-----------------------------------------------------------------------------
(* The state machine of the serving process: the module is loaded, the world
   is created, connections are accepted, negotiate their capabilities, join
   the world, and have packets sent and codec errors handled *)

InitServer ==
    /\ RegistryIdle
    /\ CodecIdle
    /\ HooksIdle
    /\ PacketsIdle
    /\ server \in [exts : SUBSET ModuleExts, running : {TRUE}]
    /\ clickModule = "unloaded"
    /\ world = [created |-> FALSE, metadata |-> NoDistance, clickDistance |-> NoDistance]
    /\ conns = [c \in Conns |-> NoConn]
    /\ errLog = 0
    /\ srvLast = NoSrvOp

\* The state an operation started in.
Before == [conns |-> conns, errLog |-> errLog, world |-> world]

\* The module manager constructs ClickDistanceModule and runs its postInit.
LoadClickDistance ==
    /\ clickModule = "unloaded"
    /\ clickModule' = IF InitRaises THEN "failed" ELSE "loaded"
    /\ srvLast' = [NoSrvOp EXCEPT !.op = "load",
                                  !.exc = IF InitRaises THEN "Exception" ELSE "none",
                                  !.pre = Before]
    /\ UNCHANGED <<server, world, conns, errLog>>
    /\ UNCHANGED <<registryVars, codecVars, hookVars, pktVars>>

\* World.__init__ for a world whose file holds the "clickDistance" metadata
\* given (NoDistance: none), followed by its AFTER hook when the module injected
\* one.
CreateWorld(metadata) ==
    /\ clickModule # "unloaded"
    /\ ~world.created
    /\ LET w == [world EXCEPT !.created = TRUE, !.metadata = metadata]
       IN  world' = IF Injected(clickModule) THEN loadWorldClickDistance(w) ELSE w
    /\ srvLast' = [NoSrvOp EXCEPT !.op = "createWorld", !.arg = metadata, !.pre = Before]
    /\ UNCHANGED <<server, clickModule, conns, errLog>>
    /\ UNCHANGED <<registryVars, codecVars, hookVars, pktVars>>

\* A connection is accepted.
Accept(c) ==
    /\ clickModule # "unloaded"
    /\ server.running
    /\ conns[c].state = "none"
    /\ conns' = [conns EXCEPT ![c].state = "open"]
    /\ srvLast' = [NoSrvOp EXCEPT !.op = "accept", !.c = c, !.pre = Before]
    /\ UNCHANGED <<server, clickModule, world, errLog>>
    /\ UNCHANGED <<registryVars, codecVars, hookVars, pktVars>>

\* The one-time handshake: the client lists its extensions.
Handshake(c, clientList) ==
    /\ conns[c].state = "open"
    /\ ~conns[c].handshaken
    /\ conns' = [conns EXCEPT ![c].handshaken = TRUE,
                              ![c].listed = clientList,
                              ![c].caps = Negotiate(server.exts, clientList)]
    /\ srvLast' = [NoSrvOp EXCEPT !.op = "handshake", !.c = c, !.arg = clientList,
                                  !.pre = Before]
    /\ UNCHANGED <<server, clickModule, world, errLog>>
    /\ UNCHANGED <<registryVars, codecVars, hookVars, pktVars>>

\* player.supports(ext) is asked.
Supports(c, ext) ==
    /\ conns[c].state = "open"
    /\ conns[c].handshaken
    /\ srvLast' = [NoSrvOp EXCEPT !.op = "supports", !.c = c, !.arg = ext,
                                  !.result = supports(conns[c], ext), !.pre = Before]
    /\ UNCHANGED <<server, clickModule, world, conns, errLog>>
    /\ UNCHANGED <<registryVars, codecVars, hookVars, pktVars>>

\* WorldPlayerManager.joinPlayer, followed by its AFTER hook when the module
\* injected one.
JoinWorld(c) ==
    /\ conns[c].state = "open"
    /\ conns[c].handshaken
    /\ world.created
    /\ ~conns[c].joined
    /\ Len(conns[c].sent) < MaxSent
    /\ LET joined == [conns EXCEPT ![c].joined = TRUE]
       IN  conns' = IF Injected(clickModule) THEN sendClickDistance(joined, world, c)
                    ELSE joined
    /\ srvLast' = [NoSrvOp EXCEPT !.op = "join", !.c = c, !.pre = Before]
    /\ UNCHANGED <<server, clickModule, world, errLog>>
    /\ UNCHANGED <<registryVars, codecVars, hookVars, pktVars>>

\* player.setClickDistance(distance) is called; Player has that method only
\* when the module injected it.
SetClickDistance(c, distance) ==
    /\ conns[c].state = "open"
    /\ conns[c].handshaken
    /\ Len(conns[c].sent) < MaxSent
    /\ conns' = IF Injected(clickModule) THEN setClickDistance(conns, c, distance) ELSE conns
    /\ srvLast' = [NoSrvOp EXCEPT !.op = "setClickDistance", !.c = c, !.arg = distance,
                                  !.exc = IF Injected(clickModule) THEN "none"
                                          ELSE "AttributeError",
                                  !.pre = Before]
    /\ UNCHANGED <<server, clickModule, world, errLog>>
    /\ UNCHANGED <<registryVars, codecVars, hookVars, pktVars>>

\* world.setWorldClickDistance(distance, notifyPlayers) is called; World has that
\* method only when the module injected it.
SetWorldClickDistance(distance, notifyPlayers) ==
    /\ world.created
    /\ \A c \in Conns : Len(conns[c].sent) < MaxSent
    /\ LET r == setWorldClickDistance(conns, world, distance, notifyPlayers)
       IN  /\ conns' = IF Injected(clickModule) THEN r.conns ELSE conns
           /\ world' = IF Injected(clickModule) THEN r.world ELSE world
    /\ srvLast' = [NoSrvOp EXCEPT !.op = "setWorldClickDistance", !.arg = distance,
                                  !.result = notifyPlayers,
                                  !.exc = IF Injected(clickModule) THEN "none"
                                          ELSE "AttributeError",
                                  !.pre = Before]
    /\ UNCHANGED <<server, clickModule, errLog>>
    /\ UNCHANGED <<registryVars, codecVars, hookVars, pktVars>>

\* Encoding or decoding a packet of class cls fails on connection c.
CodecError(c, cls) ==
    /\ conns[c].state = "open"
    /\ errLog < MaxErrors
    /\ LET r == HandleCodecError(conns, errLog, c, cls)
       IN  /\ conns' = r.conns
           /\ errLog' = r.log
    /\ srvLast' = [NoSrvOp EXCEPT !.op = "codecError", !.c = c, !.arg = cls, !.pre = Before]
    /\ UNCHANGED <<server, clickModule, world>>
    /\ UNCHANGED <<registryVars, codecVars, hookVars, pktVars>>

NextServer ==
    \/ LoadClickDistance
    \/ \E metadata \in {NoDistance, OtherClickDistance} : CreateWorld(metadata)
    \/ \E c \in Conns : Accept(c)
    \/ \E c \in Conns, clientList \in SUBSET Exts : Handshake(c, clientList)
    \/ \E c \in Conns, ext \in Exts : Supports(c, ext)
    \/ \E c \in Conns : JoinWorld(c)
    \/ \E c \in Conns, d \in Distances : SetClickDistance(c, d)
    \/ \E d \in Distances, notifyPlayers \in BOOLEAN : SetWorldClickDistance(d, notifyPlayers)
    \/ \E c \in Conns, cls \in PacketClasses : CodecError(c, cls)

SpecServer == InitServer /\ [][NextServer]_vars

-----------------------------------------------------------------------------
(* The state machine of the hook engine: hooks are registered, extension
   points are invoked *)

InitHooks ==
    /\ RegistryIdle
    /\ CodecIdle
    /\ ServerIdle
    /\ HooksIdle
    /\ PacketsIdle

\* A module registers a hook. A BEFORE handler may be one that fails, an AFTER
\* handler one that transforms the result.
RegisterHook(target, timing, fails, transforms) ==
    /\ Len(bindings) < MaxBindings
    /\ fails => timing = "BEFORE"
    /\ transforms => timing = "AFTER"
    /\ LET r == registerHook(bindings, target, timing, fails, transforms)
       IN  /\ bindings' = r.bindings
           /\ hookLast' = [NoHookOp EXCEPT !.op = "register", !.target = target,
                                           !.timing = timing, !.exc = r.exc,
                                           !.pre = bindings]
    /\ UNCHANGED <<registryVars, codecVars, serverVars, pktVars>>

\* A core operation reaches its extension point.
InvokeTarget(target) ==
    /\ LET r == Invoke(bindings, target)
       IN  hookLast' = [NoHookOp EXCEPT !.op = "invoke", !.target = target, !.exc = r.exc,
                                        !.by = r.by, !.trace = r.trace, !.result = r.result,
                                        !.pre = bindings]
    /\ UNCHANGED bindings
    /\ UNCHANGED <<registryVars, codecVars, serverVars, pktVars>>

NextHooks ==
    \/ \E target \in Targets, timing \in Timings, fails \in BOOLEAN, transforms \in BOOLEAN :
           RegisterHook(target, timing, fails, transforms)
    \/ \E target \in Targets : InvokeTarget(target)

SpecHooks == InitHooks /\ [][NextHooks]_vars

-----------------------------------------------------------------------------
(* The state machine of the extension packets: the TextHotKey module verifies
   its configuration, a network handler reaches its post-login step, packets
   are serialized *)

\* The distances serialize is called with.
DistanceArgs == {IntVal(0), IntVal(DefaultClickDistance), IntVal(32768), IntVal(-1)}

\* The network handlers: without a player, or with one of any capability set.
Handlers ==
    {NoHandler} \cup {[NoHandler EXCEPT !.hasPlayer = TRUE, !.caps = c] : c \in SUBSET ModuleExts}

InitPackets ==
    /\ RegistryIdle
    /\ CodecIdle
    /\ ServerIdle
    /\ HooksIdle
    /\ hotkeys \in ValidConfigs(MaxHotkeys)
    /\ hkModule = "unloaded"
    /\ net \in Handlers
    /\ pktLast = NoPktOp

\* The module manager runs TextHotKeyModule.postInit: the configuration is
\* verified and, if nothing was raised, the post-login hook is injected.
LoadTextHotKey ==
    /\ hkModule = "unloaded"
    /\ hkModule' = IF VerifyHotkeys(hotkeys) = "none" THEN "loaded" ELSE "failed"
    /\ pktLast' = [NoPktOp EXCEPT !.op = "postInit", !.exc = VerifyHotkeys(hotkeys)]
    /\ UNCHANGED <<hotkeys, net>>
    /\ UNCHANGED <<registryVars, codecVars, serverVars, hookVars>>

\* NetworkHandler._processPostLogin, followed by its AFTER hook when the module
\* injected one.
PostLogin ==
    /\ hkModule # "unloaded"
    /\ ~net.loggedIn
    /\ LET r == IF hkModule = "loaded" THEN sendTextHotkeys(net, hotkeys)
                ELSE [sent |-> net.sent, exc |-> "none"]
       IN  /\ net' = [net EXCEPT !.loggedIn = TRUE, !.sent = r.sent]
           /\ pktLast' = [NoPktOp EXCEPT !.op = "postLogin", !.exc = r.exc,
                                         !.sentBefore = net.sent]
    /\ UNCHANGED <<hotkeys, hkModule>>
    /\ UNCHANGED <<registryVars, codecVars, serverVars, hookVars>>

\* SetTextHotKeyPacket.serialize is called with the i-th hotkey.
SerializeTextHotKey(i) ==
    /\ i \in 1..Len(hotkeys)
    /\ LET h == hotkeys[i]
           r == serializeSetTextHotKey(StrVal(h.k), h.v.action, h.v.keyCode, h.v.keyMods)
       IN  pktLast' = [NoPktOp EXCEPT !.op = "serialize", !.packet = SetTextHotKeyPacket,
                                      !.exc = r.exc, !.bytes = r.bytes]
    /\ UNCHANGED <<hotkeys, hkModule, net>>
    /\ UNCHANGED <<registryVars, codecVars, serverVars, hookVars>>

\* SetClickDistancePacket.serialize is called.
SerializeClickDistance(distance) ==
    /\ LET r == serializeSetClickDistance(distance)
       IN  pktLast' = [NoPktOp EXCEPT !.op = "serialize", !.packet = SetClickDistancePacket,
                                      !.exc = r.exc, !.bytes = r.bytes]
    /\ UNCHANGED <<hotkeys, hkModule, net>>
    /\ UNCHANGED <<registryVars, codecVars, serverVars, hookVars>>

NextPackets ==
    \/ LoadTextHotKey
    \/ PostLogin
    \/ \E i \in 1..MaxHotkeys : SerializeTextHotKey(i)
    \/ \E distance \in DistanceArgs : SerializeClickDistance(distance)

SpecPackets == InitPackets /\ [][NextPackets]_vars

-----------------------------------------------------------------------------
(* Vocabulary of the properties: the three registries addressed uniformly *)

RegistryNames == {"block", "request", "response"}

\* The name-indexed dict of registry reg in the registries R.
NameIndex(R, reg) == IF reg = "block" THEN R.bd ELSE IF reg = "request" THEN R.rd ELSE R.sd

\* lookupByName on registry reg: getBlock or getPacket.
LookupByName(R, reg, name, ignoreCase) ==
    IF reg = "block" THEN getBlock(R.bd, name, ignoreCase)
    ELSE getPacket(NameIndex(R, reg), name, ignoreCase)

\* lookupById on registry reg: getBlockById or getPacketById.
LookupById(R, reg, id) ==
    IF reg = "block" THEN getBlockById(R.bi, id) ELSE getPacketById(NameIndex(R, reg), id)

\* The ids registry reg has indexed: the keys of _blockIds, or getAllPacketIds.
IndexedIds(R, reg) ==
    IF reg = "block" THEN DOMAIN R.bi
    ELSE {getAllPacketIds(NameIndex(R, reg))[i] : i \in 1..Len(NameIndex(R, reg))}

\* The current entries of registry reg: those reachable through its name index.
Current(R, reg) == {NameIndex(R, reg)[i].v : i \in 1..Len(NameIndex(R, reg))}

\* Some entry of registry reg is named name, ignoring letter case.
NameTaken(R, reg, name) ==
    \E i \in 1..Len(NameIndex(R, reg)) : Lower(NameIndex(R, reg)[i].k) = Lower(name)

\* The letter-case variants of a name that the model writes.
CaseVariants(name) ==
    {n \in Names \cup {Lower(m) : m \in Names} : Lower(n) = Lower(name)}

\* The last call was a register call on a registry that held the exact name already.
LastRegisteredExistingName ==
    /\ last.op = "register"
    /\ DictHas(NameIndex(pre.R, last.reg), last.entry.NAME)

-----------------------------------------------------------------------------
(* Claims *)

C2_OverrideReplaces ==
    (LastRegisteredExistingName /\ last.entry.OVERRIDE) =>
        /\ last.out.exc = "none"
        /\ LookupByName(Registries, last.reg, last.entry.NAME, TRUE) = last.entry
        /\ LookupById(Registries, last.reg, last.entry.ID) = last.entry

\* C3: an overriding block registration whose name collides and whose id is new
\* succeeds; afterwards lookupByName returns the new entry and the old id is no
\* longer indexed.
C3_PartialCollisionOverride ==
    (/\ LastRegisteredExistingName
     /\ last.reg = "block"
     /\ last.entry.OVERRIDE
     /\ last.entry.ID \notin DOMAIN pre.R.bi) =>
        /\ last.out.exc = "none"
        /\ getBlock(blockDict, Lower(last.entry.NAME), TRUE) = last.entry
        /\ getBlockById(blockIds, DictGet(pre.R.bd, last.entry.NAME).ID) = NotFound

\* C4: the block registry's name index and id index agree: the entry under id k has
\* id k and is the entry under its own name, and every entry of the name index is
\* the entry under its own id.
C4_BlockMapsAgree ==
    /\ \A k \in DOMAIN blockIds :
          /\ blockIds[k].ID = k
          /\ DictHas(blockDict, blockIds[k].NAME)
          /\ DictGet(blockDict, blockIds[k].NAME) = blockIds[k]
    /\ \A e \in Current(Registries, "block") :
          /\ e.ID \in DOMAIN blockIds
          /\ blockIds[e.ID] = e

\* C5: for every current entry x of a registry, lookupByName in its default
\* case-insensitive mode returns x for every letter-case variant of x's name, and
\* lookupByName(name(x)) and lookupById(id(x)) return the same entry.
C5_LookupsAgree ==
    \A reg \in RegistryNames : \A x \in Current(Registries, reg) :
        /\ \A n \in CaseVariants(x.NAME) : LookupByName(Registries, reg, n, TRUE) = x
        /\ LookupByName(Registries, reg, x.NAME, TRUE) = LookupById(Registries, reg, x.ID)

\* C6: no registry holds two current entries whose names are equal ignoring letter
\* case, and a register call with override=false of a name that is taken, ignoring
\* letter case, fails with a registration conflict.
C6_NameKeyCaseInsensitive ==
    /\ \A reg \in RegistryNames :
          LET d == NameIndex(Registries, reg)
          IN  \A i, j \in 1..Len(d) : Lower(d[i].k) = Lower(d[j].k) => i = j
    /\ (/\ last.op = "register"
        /\ ~last.entry.OVERRIDE
        /\ NameTaken(pre.R, last.reg, last.entry.NAME)) => last.out.exc = "InitRegisterError"

\* C7: no two current entries of one registry share a numeric id (an opcode, for the
\* packets of one direction).
C7_IdsUnique ==
    \A reg \in RegistryNames :
        LET d == NameIndex(Registries, reg)
        IN  \A i, j \in 1..Len(d) : d[i].v.ID = d[j].v.ID => i = j

\* C8: in every registry, a register call with override=false of an entry with a
\* fresh name and an id already present fails with a registration conflict about
\* the id whose error identifies both owners: the existing entry with its module
\* and the registering entry with its module.
C8_IdConflictNamesOwners ==
    (/\ last.op = "register"
     /\ ~last.entry.OVERRIDE
     /\ ~NameTaken(pre.R, last.reg, last.entry.NAME)
     /\ last.entry.ID \in IndexedIds(pre.R, last.reg)) =>
        /\ last.out.exc = "InitRegisterError"
        /\ last.out.about = "id"
        /\ last.out.owners = {Owner(LookupById(pre.R, last.reg, last.entry.ID)),
                              Owner(last.entry)}

\* C9: the player-loop cache agrees with the request registry: every current
\* definition flagged PLAYERLOOP is in the cache under its id and is what
\* getPacketById returns for that id, and every definition in the cache is flagged
\* PLAYERLOOP and is current in the registry.
C9_LoopCacheAgrees ==
    /\ \A p \in Current(Registries, "request") :
          p.PLAYERLOOP =>
              /\ p.ID \in DOMAIN loopPackets
              /\ loopPackets[p.ID] = p
              /\ getPacketById(requestDict, p.ID) = p
    /\ \A k \in DOMAIN loopPackets :
          /\ loopPackets[k].PLAYERLOOP
          /\ loopPackets[k] \in Current(Registries, "request")

-----------------------------------------------------------------------------
(* Properties of the packet utilities *)

\* The characters of v that packageString keeps: the first min(len(v), w).
KeptLen == IF Len(codecIn.v) < codecIn.w THEN Len(codecIn.v) ELSE codecIn.w

\* packageString has returned or raised.
Packaged == codecOut.pc \in {"packed", "raised", "done"}

\* The bytes are exactly w long: the kept characters of v, then only spaces.
PackedAsSpecified ==
    /\ codecOut.packed.exc = "none"
    /\ Len(codecOut.packed.bytes) = codecIn.w
    /\ \A i \in 1..codecIn.w :
           codecOut.packed.bytes[i] = IF i <= KeptLen THEN codecIn.v[i] ELSE SPACE

\* C11: round-trip law of a fixed-width string field: for every string v of at
\* most w characters that does not end in a space or a NUL,
\* unpackString(packageString(v, w)) is v again, leading spaces and interior
\* characters included.
C11_StringRoundTrip ==
    ( /\ codecOut.pc = "done"
      /\ Len(codecIn.v) <= codecIn.w
      /\ (codecIn.v # <<>> => codecIn.v[Len(codecIn.v)] \notin {SPACE, NUL}) )
    => codecOut.text = codecIn.v

\* C12, as stated: packageString(value, width) always yields exactly width
\* bytes, the first min(len(value), width) characters of value followed only by
\* space padding.
C12_AlwaysWidthBytes == Packaged => PackedAsSpecified

\* C12, amended: when the characters packageString keeps are all ASCII it yields
\* exactly width bytes, the kept characters followed only by space padding, and
\* otherwise it raises UnicodeEncodeError; packageString("hi", 4) is "hi  " and
\* unpackString of that is "hi".
C12_WidthBytesWhenAscii ==
    /\ Packaged =>
          IF \A i \in 1..KeptLen : IsAscii(codecIn.v[i])
          THEN PackedAsSpecified
          ELSE codecOut.packed.exc = "UnicodeEncodeError"
    /\ (codecIn = [v |-> <<CharH, CharI>>, w |-> 4] /\ codecOut.pc = "done") =>
          /\ codecOut.packed.bytes = <<CharH, CharI, SPACE, SPACE>>
          /\ codecOut.text = <<CharH, CharI>>

\* "hi" has been packed into 4 bytes and unpacked again.
C12_Witness ==
    /\ codecIn = [v |-> <<CharH, CharI>>, w |-> 4]
    /\ codecOut.pc = "done"
    /\ Len(codecOut.packed.bytes) = 4

-----------------------------------------------------------------------------
(* Properties of the connections *)

\* C13: a codec error on a critical packet closes that connection and only that
\* one, the other connections and the server being as before; a codec error on
\* a packet that is not critical is handed to the packet's onError (which logs
\* it) and every connection, that one included, stays as it was.
C13_CodecErrorByCriticality ==
    srvLast.op = "codecError" =>
        IF srvLast.arg.CRITICAL
        THEN /\ conns[srvLast.c].state = "closed"
             /\ \A o \in Conns \ {srvLast.c} : conns[o] = srvLast.pre.conns[o]
             /\ server.running
             /\ errLog = srvLast.pre.errLog
        ELSE /\ conns[srvLast.c].state = "open"
             /\ conns = srvLast.pre.conns
             /\ server.running
             /\ errLog = srvLast.pre.errLog + 1

\* A critical packet failed on one connection while the other one was open.
C13_Witness ==
    /\ srvLast.op = "codecError"
    /\ srvLast.arg.CRITICAL
    /\ conns[srvLast.c].state = "closed"
    /\ \E o \in Conns \ {srvLast.c} : conns[o].state = "open"

\* A SetClickDistance packet was sent to connection c.
SentClickDistance(c) ==
    \E i \in 1..Len(conns[c].sent) : conns[c].sent[i].packet = SetClickDistancePacket.NAME

\* C14: a connection whose capability set lacks ("ClickDistance", 1) is never
\* sent a SetClickDistance packet, and a connection that negotiated it and
\* joined the world has been sent one.
C14_ClickDistanceGated ==
    \A c \in Conns :
        /\ SentClickDistance(c) => supports(conns[c], CPEExtension("ClickDistance", 1))
        /\ ( /\ conns[c].state = "open"
             /\ conns[c].joined
             /\ supports(conns[c], CPEExtension("ClickDistance", 1)) )
           => SentClickDistance(c)

\* C15: after the handshake supports(name, version) is true exactly when that
\* pair is in the server's list and in the client's list; the handshake raises
\* nothing whatever the client lists; a supports call answers by that rule and
\* changes nothing.
C15_SupportsIsIntersection ==
    /\ \A c \in Conns :
          (conns[c].state = "open" /\ conns[c].handshaken) =>
              \A ext \in Exts :
                  supports(conns[c], ext) <=> (ext \in server.exts /\ ext \in conns[c].listed)
    /\ srvLast.op = "handshake" => srvLast.exc = "none"
    /\ srvLast.op = "supports" =>
          /\ srvLast.result = ( /\ srvLast.arg \in server.exts
                                /\ srvLast.arg \in conns[srvLast.c].listed )
          /\ conns = srvLast.pre.conns

\* The client listed ClickDistance in version 2 only, the server offers version
\* 1, and supports was asked about version 1.
C15_Witness ==
    /\ srvLast.op = "supports"
    /\ srvLast.arg = CPEExtension("ClickDistance", 1)
    /\ ~srvLast.result
    /\ CPEExtension("ClickDistance", 1) \in server.exts
    /\ CPEExtension("ClickDistance", 2) \in conns[srvLast.c].listed

-----------------------------------------------------------------------------
(* Properties of the hook engine *)

\* The steps of the last invocation that are of the given kind, in the order
\* they ran.
StepsOf(kind) == SelectSeq(hookLast.trace, LAMBDA st : st.kind = kind)

\* The registration numbers of the steps of a kind, in the order they ran.
OrdersRun(kind) == [i \in 1..Len(StepsOf(kind)) |-> StepsOf(kind)[i].order]

\* The registration numbers of the target's bindings of a timing, in
\* registration order.
OrdersBound(target, timing) ==
    LET sel == SelectSeq(bindings, LAMBDA b : b.target = target /\ b.timing = timing)
    IN  [i \in 1..Len(sel) |-> sel[i].order]

\* Before the body: 1, the body or its replacement: 2, after it: 3.
Phase(st) == IF st.kind = "before" THEN 1 ELSE IF st.kind = "after" THEN 3 ELSE 2

\* The last operation was an invocation that did not fail.
Invoked == hookLast.op = "invoke" /\ hookLast.exc = "none"

\* C16: an invocation that completes runs every BEFORE binding of the target in
\* registration order, then the body (or its replacement) once, then every
\* AFTER binding of the target in registration order, one after the other.
C16_HookOrder ==
    Invoked =>
        /\ OrdersRun("before") = OrdersBound(hookLast.target, "BEFORE")
        /\ OrdersRun("after") = OrdersBound(hookLast.target, "AFTER")
        /\ Len(StepsOf("body")) + Len(StepsOf("replace")) = 1
        /\ \A i, j \in 1..Len(hookLast.trace) :
               i < j => Phase(hookLast.trace[i]) <= Phase(hookLast.trace[j])

\* Two BEFORE and two AFTER bindings of one target ran around the body.
C16_Witness ==
    /\ Invoked
    /\ Len(StepsOf("before")) = 2
    /\ Len(StepsOf("after")) = 2
    /\ Len(StepsOf("body")) = 1

\* C17: with a REPLACE binding on the target the default body does not run, the
\* REPLACE handler runs once, its return value is what the AFTER bindings are
\* handed (the first of them directly, and it is the final result unless an
\* AFTER handler transforms it), and all AFTER bindings run; without a REPLACE
\* binding the default body runs exactly once.
C17_ReplaceSuppressesBody ==
    Invoked =>
        IF \E i \in 1..Len(bindings) :
               bindings[i].target = hookLast.target /\ bindings[i].timing = "REPLACE"
        THEN /\ StepsOf("body") = <<>>
             /\ Len(StepsOf("replace")) = 1
             /\ \E i \in 1..Len(bindings) :
                    /\ bindings[i].target = hookLast.target
                    /\ bindings[i].timing = "REPLACE"
                    /\ StepsOf("replace")[1].order = bindings[i].order
                    /\ StepsOf("after") # <<>> => StepsOf("after")[1].got = ReplaceResult(bindings[i])
                    /\ (\A k \in 1..Len(bindings) :
                            (bindings[k].target = hookLast.target /\ bindings[k].timing = "AFTER")
                            => ~bindings[k].transforms)
                       => /\ hookLast.result = ReplaceResult(bindings[i])
                          /\ \A k \in 1..Len(StepsOf("after")) :
                                 StepsOf("after")[k].got = ReplaceResult(bindings[i])
             /\ OrdersRun("after") = OrdersBound(hookLast.target, "AFTER")
        ELSE /\ Len(StepsOf("body")) = 1
             /\ StepsOf("replace") = <<>>

\* A REPLACE binding ran in place of the body and two AFTER bindings ran on its
\* result.
C17_Witness ==
    /\ Invoked
    /\ Len(StepsOf("replace")) = 1
    /\ Len(StepsOf("after")) = 2
    /\ hookLast.result = StepsOf("after")[1].got
    /\ hookLast.result[1] = "replace"

\* C18: every target has at most one REPLACE binding; registering a REPLACE on
\* a target that has one fails with HookConflict and leaves the bindings as they
\* were; a BEFORE or an AFTER registration is accepted and appended, also on a
\* target that has a REPLACE binding.
C18_OneReplacePerTarget ==
    /\ \A target \in Targets :
           Cardinality({i \in 1..Len(bindings) :
                           bindings[i].target = target /\ bindings[i].timing = "REPLACE"}) <= 1
    /\ hookLast.op = "register" =>
           IF /\ hookLast.timing = "REPLACE"
              /\ \E i \in 1..Len(hookLast.pre) :
                     /\ hookLast.pre[i].target = hookLast.target
                     /\ hookLast.pre[i].timing = "REPLACE"
           THEN hookLast.exc = "HookConflict" /\ bindings = hookLast.pre
           ELSE /\ hookLast.exc = "none"
                /\ Len(bindings) = Len(hookLast.pre) + 1
                /\ SubSeq(bindings, 1, Len(hookLast.pre)) = hookLast.pre
                /\ bindings[Len(bindings)].target = hookLast.target
                /\ bindings[Len(bindings)].timing = hookLast.timing

\* A second REPLACE was refused on a target that also has a BEFORE or an AFTER
\* binding.
C18_Witness ==
    /\ hookLast.op = "register"
    /\ hookLast.exc = "HookConflict"
    /\ \E i \in 1..Len(bindings) :
           bindings[i].target = hookLast.target /\ bindings[i].timing \in {"BEFORE", "AFTER"}

\* C19: when a BEFORE binding of the target fails, the invocation fails with
\* that binding's error, the failing binding is the last thing that ran: no
\* later BEFORE binding, no body, no REPLACE and no AFTER binding runs; and an
\* invocation fails only so.
C19_BeforeFailureAborts ==
    hookLast.op = "invoke" =>
        LET failing == {i \in 1..Len(bindings) :
                           /\ bindings[i].target = hookLast.target
                           /\ bindings[i].timing = "BEFORE"
                           /\ bindings[i].fails}
        IN  IF failing = {}
            THEN hookLast.exc = "none"
            ELSE LET first == CHOOSE i \in failing : \A j \in failing : i <= j
                 IN  /\ hookLast.exc = "HandlerError"
                     /\ hookLast.by = bindings[first].order
                     /\ hookLast.result = NoResult
                     /\ hookLast.trace # <<>>
                     /\ hookLast.trace[Len(hookLast.trace)].order = bindings[first].order
                     /\ \A k \in 1..Len(hookLast.trace) : hookLast.trace[k].kind = "before"
                     /\ \A k \in 1..Len(hookLast.trace) :
                            hookLast.trace[k].order <= bindings[first].order

\* A BEFORE binding failed on a target that also has a later BEFORE binding, a
\* REPLACE binding and an AFTER binding.
C19_Witness ==
    /\ hookLast.op = "invoke"
    /\ hookLast.exc = "HandlerError"
    /\ \E i, j, k \in 1..Len(bindings) :
           /\ bindings[i].target = hookLast.target /\ bindings[i].timing = "BEFORE"
           /\ bindings[i].order > hookLast.by
           /\ bindings[j].target = hookLast.target /\ bindings[j].timing = "REPLACE"
           /\ bindings[k].target = hookLast.target /\ bindings[k].timing = "AFTER"

-----------------------------------------------------------------------------
(* The override warning *)

\* C20: a register call with override=true succeeds, and it logs the "override
\* had no effect" warning exactly when neither the name nor the id of the entry
\* collides with an entry of that registry; in the block registry and in the two
\* packet registries.
C20_OverrideWarning ==
    (last.op = "register" /\ last.entry.OVERRIDE) =>
        /\ last.out.exc = "none"
        /\ last.warned <=> ( /\ ~DictHas(NameIndex(pre.R, last.reg), last.entry.NAME)
                             /\ last.entry.ID \notin IndexedIds(pre.R, last.reg) )

-----------------------------------------------------------------------------
(* Further properties of the registries *)

\* contains(name) and count() of registry reg.
Contains(R, reg, name) ==
    IF reg = "block" THEN BlockContains(R.bd, name) ELSE PacketContains(NameIndex(R, reg), name)

Count(R, reg) ==
    IF reg = "block" THEN BlockCount(R.bd) ELSE PacketCount(NameIndex(R, reg))

\* The last call was a register call on a packet registry.
LastRegisteredPacket == last.op = "register" /\ last.reg \in {"request", "response"}

\* C21: a register call on one packet direction leaves the other direction's
\* dict (names, ids, count) and cache as they were, and a packet whose name and
\* id are new to its own direction is registered without override and without
\* conflict whatever the other direction holds.
C21_DirectionsIndependent ==
    LastRegisteredPacket =>
        /\ last.reg = "request" => responseDict = pre.R.sd
        /\ last.reg = "response" => (requestDict = pre.R.rd /\ loopPackets = pre.R.lp)
        /\ ( /\ ~last.entry.OVERRIDE
             /\ ~DictHas(NameIndex(pre.R, last.reg), last.entry.NAME)
             /\ last.entry.ID \notin IndexedIds(pre.R, last.reg) )
           => /\ last.out.exc = "none"
              /\ DictGet(NameIndex(Registries, last.reg), last.entry.NAME) = last.entry

\* A request packet was registered without override under a name and an id that
\* the response registry already used.
C21_Witness ==
    /\ last.op = "register"
    /\ last.reg = "request"
    /\ ~last.entry.OVERRIDE
    /\ last.out.exc = "none"
    /\ DictHas(pre.R.sd, last.entry.NAME)
    /\ last.entry.ID \in IndexedIds(pre.R, "response")
    /\ responseDict = pre.R.sd

\* C28: a register call that fails, for a duplicate name, a duplicate id or any
\* other exception, leaves every registry as it was: name index, id index and
\* player-loop cache; the rejected entry is retrievable by name or by id only
\* if an equal entry was before the call.
C28_FailedRegisterChangesNothing ==
    (last.op = "register" /\ last.out.exc # "none") =>
        /\ Registries = pre.R
        /\ \A name \in Names :
               LookupByName(Registries, last.reg, name, TRUE)
                   = LookupByName(pre.R, last.reg, name, TRUE)
        /\ \A id \in Ids :
               LookupById(Registries, last.reg, id) = LookupById(pre.R, last.reg, id)

\* A request packet for the player loop was rejected for its id, which another
\* name holds.
C28_Witness ==
    /\ last.op = "register"
    /\ last.reg = "request"
    /\ last.entry.PLAYERLOOP
    /\ last.out.exc = "InitRegisterError"
    /\ last.out.about = "id"
    /\ Registries = pre.R

\* C29: every packet held by the response registry records the direction
\* RESPONSE and every packet held by the request registry records REQUEST: the
\* DIRECTION of a packet is the direction of the manager that holds it.
C29_DirectionMatchesRegistry ==
    \A reg \in {"request", "response"} :
        NameIndex(Registries, reg) # <<>> => PacketDirection(reg) = ManagerDirection(reg)

\* C30: contains(name) is true exactly when lookupByName(name), ignoring case
\* as it does by default, succeeds, and count() is the number of distinct ids
\* for which lookupById succeeds; in every registry.
C30_ContainsAndCountDerived ==
    \A reg \in RegistryNames :
        /\ \A name \in Names :
               Contains(Registries, reg, name)
                   <=> (LookupByName(Registries, reg, name, TRUE) # NotFound)
        /\ Count(Registries, reg)
               = Cardinality({id \in Ids : LookupById(Registries, reg, id) # NotFound})

-----------------------------------------------------------------------------
(* The AFTER chain *)

\* The AFTER bindings of the target of the last invocation, in registration order.
AftersBound ==
    SelectSeq(bindings, LAMBDA b : b.target = hookLast.target /\ b.timing = "AFTER")

\* What step 2 of the last invocation produced.
MainResult ==
    IF StepsOf("replace") # <<>> THEN <<"replace", StepsOf("replace")[1].order>>
    ELSE BodyResult

\* What the k-th AFTER binding of the last invocation handed on.
HandedOn(k) ==
    IF AftersBound[k].transforms THEN AfterResult(AftersBound[k]) ELSE StepsOf("after")[k].got

\* C22: the AFTER bindings of the target run in registration order; the first
\* is given the result of the body or of the REPLACE handler, each later one
\* what the one before it handed on (its own result if it transforms, else what
\* it was given), and the caller gets what the last one handed on.
C22_AfterChain ==
    Invoked =>
        /\ Len(StepsOf("after")) = Len(AftersBound)
        /\ \A k \in 1..Len(AftersBound) :
               /\ StepsOf("after")[k].order = AftersBound[k].order
               /\ StepsOf("after")[k].got = IF k = 1 THEN MainResult ELSE HandedOn(k - 1)
        /\ hookLast.result = IF AftersBound = <<>> THEN MainResult
                             ELSE HandedOn(Len(AftersBound))

\* Two AFTER bindings ran, the first transformed the result, and the second
\* was given the transformed result and handed it to the caller.
C22_Witness ==
    /\ Invoked
    /\ Len(StepsOf("after")) = 2
    /\ AftersBound[1].transforms
    /\ ~AftersBound[2].transforms
    /\ StepsOf("after")[2].got = AfterResult(AftersBound[1])
    /\ hookLast.result = AfterResult(AftersBound[1])

-----------------------------------------------------------------------------
(* Properties of the extension packets *)

\* The labels of the configured hotkeys, in configuration order.
ConfiguredLabels == [i \in 1..Len(hotkeys) |-> hotkeys[i].k]

\* The labels of the SetTextHotKey packets sent to the handler, in the order sent.
SentLabels ==
    LET hk == SelectSeq(net.sent, LAMBDA p : p.packet = SetTextHotKeyPacket.NAME)
    IN  [i \in 1..Len(hk) |-> hk[i].label]

\* The post-login hook of TextHotKey has run.
HookRan == pktLast.op = "postLogin" /\ hkModule = "loaded"

\* C23: when the post-login hook of TextHotKey runs, a handler without a player
\* makes it fail with ServerError; a player that supports ("TextHotKey", 1) is
\* sent exactly one SetTextHotKey packet per configured hotkey, in configuration
\* order; a player that does not is sent none, and no error is raised.
C23_HotkeysSentWhenSupported ==
    HookRan =>
        IF ~net.hasPlayer THEN pktLast.exc = "ServerError"
        ELSE /\ pktLast.exc = "none"
             /\ SentLabels = IF supports(net, CPEExtension("TextHotKey", 1))
                             THEN ConfiguredLabels ELSE <<>>

\* C24: SIZE is the sum of the widths of the fields of the layout, the first of
\* which is the 1-byte opcode: 3 for SetClickDistance, 134 for SetTextHotKey;
\* every serialize that succeeds returns exactly SIZE bytes, the first of which
\* is the opcode.
C24_SerializeSize ==
    /\ SIZE(SetClickDistancePacket) = 3
    /\ SIZE(SetTextHotKeyPacket) = 134
    /\ \A cls \in {SetClickDistancePacket, SetTextHotKeyPacket} :
           /\ FieldWidth(FormatOf(cls)[1]) = 1
           /\ SIZE(cls) = 1 + calcsize(Tail(FormatOf(cls)))
    /\ (pktLast.op = "serialize" /\ pktLast.exc = "none") =>
           /\ Len(pktLast.bytes) = SIZE(pktLast.packet)
           /\ pktLast.bytes[1] = pktLast.packet.ID

\* Both packets were serialized at their sizes: here SetTextHotKey, 134 bytes
\* beginning with its opcode.
C24_Witness ==
    /\ pktLast.op = "serialize"
    /\ pktLast.exc = "none"
    /\ pktLast.packet = SetTextHotKeyPacket
    /\ Len(pktLast.bytes) = 134
    /\ pktLast.bytes[1] = 21

\* The field is there and holds a value of the type the packet needs.
WellTyped(data) ==
    /\ data.action.type = "str"
    /\ data.keyCode.type = "int"
    /\ data.keyMods.type = "int"

\* C25: postInit of TextHotKey fails with ModuleError when a configured hotkey
\* has its action, keyCode or keyMods missing or of the wrong type, and
\* completes without error exactly when every hotkey has the three well-typed.
C25_HotkeysValidated ==
    pktLast.op = "postInit" =>
        IF \A i \in 1..Len(hotkeys) : WellTyped(hotkeys[i].v)
        THEN pktLast.exc = "none"
        ELSE pktLast.exc = "ModuleError"

-----------------------------------------------------------------------------
(* Properties of the click distance *)

\* The distance of the last SetClickDistance packet sent to connection c
\* (NoDistance if none was sent).
LastClickDistanceSent(c) ==
    LET cd == SelectSeq(conns[c].sent, LAMBDA p : p.packet = SetClickDistancePacket.NAME)
    IN  IF cd = <<>> THEN NoDistance ELSE cd[Len(cd)].arg

\* The players of the world.
InWorld(c) == conns[c].state = "open" /\ conns[c].joined

\* C26: a join sends the joining player a SetClickDistance packet carrying the
\* world's stored distance; setWorldClickDistance(d, notifyPlayers=true) stores
\* d and sends d to every player of the world, so that the last packet sent to
\* each of them carries the stored distance; with notifyPlayers=false d is
\* stored and no packet is sent.
C26_SentDistanceIsStoredDistance ==
    /\ srvLast.op = "join" =>
           /\ world.clickDistance # NoDistance
           /\ LastClickDistanceSent(srvLast.c) = world.clickDistance
    /\ srvLast.op = "setWorldClickDistance" =>
           /\ srvLast.exc = "none"
           /\ world.clickDistance = srvLast.arg
           /\ IF srvLast.result
              THEN \A c \in Conns : InWorld(c) => LastClickDistanceSent(c) = srvLast.arg
              ELSE conns = srvLast.pre.conns

\* C27: after a World is initialised world.clickDistance is its "clickDistance"
\* metadata: the metadata of the world file unchanged when there was one, and
\* otherwise new metadata, stored in the world, with the configured default
\* distance.
C27_WorldClickDistanceLoaded ==
    srvLast.op = "createWorld" =>
        /\ world.clickDistance = world.metadata
        /\ world.metadata = IF srvLast.arg = NoDistance THEN DefaultClickDistance
                            ELSE srvLast.arg

====
